---- MODULE Spec2Model ----
(***************************************************************************)
(* Model of customs_data_fetcher/main.py: the paging loop of               *)
(* fetch_and_save_data, the batch fetch of fetch_all_pages and the single  *)
(* request of fetch_page, against an endpoint that answers each request    *)
(* with 200, 429, another status or an exception.                          *)
(*                                                                         *)
(* An Optional value is a sequence of length 0 (None) or 1 (the value).    *)
(* A float is an exact fraction <<numerator, denominator>>.                *)
(* start_time, run_time and current_rps only feed a local that is never    *)
(* read, so the clock is not part of the state.                            *)
(***************************************************************************)
EXTENDS Integers, Sequences, FiniteSets, TLC

\* ---------------------------------------------------------------- constants
SAVE_BATCH_SIZE == 1000
INITIAL_CONCURRENT_REQUESTS == 10
MAX_CONCURRENT_REQUESTS == 200
RATE_LIMIT_WINDOW_SEC == 180
INITIAL_RATE_LIMIT_INTERVAL == 60
WIDENED_RATE_LIMIT_INTERVAL == 180
RATE_LIMIT_STEP == 10
INCREASE_STEP == 10
DECREASE_STEP == 1

\* ------------------------------------------------------------------- bounds
\* Highest page number a batch may reach (the loop itself is unbounded).
MaxPage == 40
\* The same for runs against an endpoint that never faults: high enough for
\* the concurrency level to climb from its initial value past its maximum.
MaxPageLong == 2520
\* The endpoint holds 0..MaxPages non-empty pages, then only empty ones.
MaxPages == 3
\* Faults (429, other status, exception) hit the first FaultSpan pages of a batch.
FaultSpan == 2
\* Number of batches of a run that may contain a 429 answer.
MaxRateLimitedBatches == 2
\* A checkpoint left by an earlier run: 0 (none) .. MaxCheckpoint.
MaxCheckpoint == 1
\* Highest page number of a batch whose fetches are followed one by one.
MaxPageGather == 11

\* Items per non-empty page.
PageSizes == {2, SAVE_BATCH_SIZE}

VARIABLES
    concurrent_requests,  \* main.py:57
    request_delay,        \* main.py:58, a fraction <<num, den>>
    page,                 \* main.py:59
    successful_requests,  \* main.py:60
    total_requests,       \* main.py:61
    header_written,       \* main.py:67
    all_data,             \* main.py:68, the buffer
    rate_limit_interval,  \* main.py:70
    tasks,                \* main.py:73, results of the batch in hand
    file,                 \* rows written to the output file (f.write)
    pc,                   \* "fetch", "process", "final", "done", "crashed"
    numPages,             \* endpoint: number of non-empty pages
    pageSize,             \* endpoint: items per non-empty page
    checkpoint,           \* environment: checkpoint of an earlier run, 0 = none
    rlBatches,            \* history: batches so far that held a 429
    maxRequested,         \* history: highest page requested so far
    reRequested,          \* history: pages requested more than once
    notOkPages,           \* history: pages answered 429 or failed at least once
    discardedPages,       \* history: pages whose result the loop left unread
    maxConsumed,          \* history: highest page whose data was appended
    appended,             \* history: number of records appended to the buffer
    writes,               \* history: number of f.write calls
    last429,              \* history: the last processed batch held a 429
    lastAllEmpty,         \* history: the last processed batch held only
                          \*   200 answers without items
    firstRequested,       \* history: the first page requested, 0 = none yet
    log,                  \* history: one entry per processed batch
    pending,              \* fetch_all_pages: the results being gathered
    started,              \* fetch_all_pages: sem_tasks that took a permit
    finished,             \* fetch_all_pages: positions whose fetch returned
    semaphore,            \* fetch_all_pages: free permits of the semaphore
    in_flight,            \* pages whose fetch_page is running
    batch_start           \* history: page, concurrency and delay at dispatch

vars == <<concurrent_requests, request_delay, page, successful_requests,
          total_requests, header_written, all_data, rate_limit_interval,
          tasks, file, pc, numPages, pageSize, checkpoint, rlBatches,
          maxRequested, reRequested, notOkPages, discardedPages,
          maxConsumed, appended, writes, last429, lastAllEmpty,
          firstRequested, log, pending, started, finished, semaphore,
          in_flight, batch_start>>

\* ------------------------------------------------------------------ helpers
None == <<>>
Some(x) == <<x>>

Max(a, b) == IF a >= b THEN a ELSE b

\* min() of two fractions, as Python's min(a, b): b only if b < a.
FracMin(a, b) == IF b[1] * a[2] < a[1] * b[2] THEN b ELSE a

\* The least element of the set of indices S, otherwise if S is empty.
FirstOf(S, otherwise) ==
    IF S = {} THEN otherwise ELSE CHOOSE i \in S : \A j \in S : i <= j

\* ----------------------------------------------------------------- endpoint
\* The 'items' of a page: the same on every fetch.
Items(p) ==
    IF p <= numPages THEN [i \in 1..pageSize |-> <<p, i>>] ELSE <<>>

Statuses == {"200", "429", "500", "exception"}

\* --------------------------------------------------------------- fetch_page
\* fetch_page without the except clause: the error leaves the function, and
\* the caller gets no (page, data, flag) value.
fetch_pageNoCatch(p, status) ==
    CASE status = "429" -> <<p, None, FALSE>>
      [] status = "200" -> <<p, Some(Items(p)), TRUE>>
      [] OTHER          -> <<p>>

fetch_page(p, status) ==
    CASE status = "429" -> <<p, None, FALSE>>
      [] status = "200" -> <<p, Some(Items(p)), TRUE>>
      [] OTHER          -> <<p, None, TRUE>>

\* ---------------------------------------------------------- fetch_all_pages
\* The pages of the batch starting at start_page, in gather()'s result order.
BatchPages(start_page, end_page) ==
    [i \in 1..(end_page - start_page + 1) |-> start_page + i - 1]

\* One result per page of start_page..end_page, in page order; the semaphore
\* holds concurrent_requests permits for as many tasks, so it never blocks.
fetch_all_pages(start_page, end_page, status) ==
    [i \in 1..(end_page - start_page + 1) |->
        fetch_page(BatchPages(start_page, end_page)[i], status[i])]

\* tasks = await fetch_all_pages(session, page, page + concurrent_requests - 1,
\* request_delay, concurrent_requests), while the batch stays within cap; the
\* endpoint answers 429 only at rl_positions of the batch and fails only at
\* er_positions. With atomic the call is one step up to the return of
\* gather(); otherwise this step creates the tasks and the semaphore, and the
\* fetches start, complete and are gathered in steps of their own.
Request(cap, rl_positions, er_positions, atomic) ==
    /\ pc = "fetch"
    /\ page + concurrent_requests - 1 <= cap
    /\ \E rl \in SUBSET rl_positions, kind \in Statuses \ {"200", "429"} :
       \E er \in SUBSET (er_positions \ rl) :
        /\ rl # {} => rlBatches < MaxRateLimitedBatches
        /\ er = {} => kind = "500"
        /\ LET end_page == page + concurrent_requests - 1
               status == [i \in 1..concurrent_requests |->
                            IF i \in rl THEN "429"
                            ELSE IF i \in er THEN kind ELSE "200"]
               results == fetch_all_pages(page, end_page, status)
           IN /\ IF atomic
                 THEN /\ tasks' = results
                      /\ pc' = "process"
                      /\ UNCHANGED <<pending, started, finished, semaphore>>
                 ELSE /\ pending' = results
                      /\ started' = 0
                      /\ finished' = {}
                      /\ semaphore' = concurrent_requests
                      /\ pc' = "gather"
                      /\ UNCHANGED tasks
              /\ rlBatches' = IF rl # {} THEN rlBatches + 1 ELSE rlBatches
              /\ maxRequested' = Max(maxRequested, end_page)
              /\ firstRequested' =
                    IF firstRequested = 0 THEN page ELSE firstRequested
              /\ reRequested' =
                    reRequested \cup {p \in page..end_page : p <= maxRequested}
              /\ notOkPages' =
                    notOkPages \cup {page + i - 1 : i \in rl \cup er}
    /\ batch_start' = [page |-> page, c |-> concurrent_requests,
                       delay |-> request_delay]
    /\ UNCHANGED <<concurrent_requests, request_delay, page,
                   successful_requests, total_requests, header_written,
                   all_data, rate_limit_interval, file, numPages, pageSize,
                   checkpoint, discardedPages, maxConsumed, appended, writes,
                   last429, lastAllEmpty, log, in_flight>>

Fetch(cap, positions) == Request(cap, positions, positions, TRUE)

FetchAllPages == Fetch(MaxPage, 1..FaultSpan)

\* The same against an endpoint that answers every request with 200.
FetchAllPagesClean == Fetch(MaxPageLong, {})

\* The same against an endpoint that never answers 429 but may fail.
FetchAllPagesFailing == Request(MaxPageLong, {}, 1..FaultSpan, TRUE)

\* The call followed fetch by fetch, against an endpoint that may answer 429.
GatherDispatch == Request(MaxPageGather, 1..FaultSpan, {}, FALSE)

\* async with semaphore: the next sem_task, in the order of creation, takes a
\* permit and starts awaiting its fetch_page (sleep, then the request).
TaskStart ==
    /\ pc = "gather"
    /\ started < Len(pending)
    /\ semaphore > 0
    /\ started' = started + 1
    /\ semaphore' = semaphore - 1
    /\ in_flight' = in_flight \cup {pending[started + 1][1]}
    /\ UNCHANGED <<concurrent_requests, request_delay, page,
                   successful_requests, total_requests, header_written,
                   all_data, rate_limit_interval, tasks, file, pc, numPages,
                   pageSize, checkpoint, rlBatches, maxRequested, reRequested,
                   notOkPages, discardedPages, maxConsumed, appended, writes,
                   last429, lastAllEmpty, firstRequested, log, pending,
                   finished, batch_start>>

\* A running fetch_page returns, in any order, and its sem_task gives the
\* permit back.
TaskComplete ==
    /\ pc = "gather"
    /\ \E i \in (1..started) \ finished :
        /\ finished' = finished \cup {i}
        /\ in_flight' = in_flight \ {pending[i][1]}
    /\ semaphore' = semaphore + 1
    /\ UNCHANGED <<concurrent_requests, request_delay, page,
                   successful_requests, total_requests, header_written,
                   all_data, rate_limit_interval, tasks, file, pc, numPages,
                   pageSize, checkpoint, rlBatches, maxRequested, reRequested,
                   notOkPages, discardedPages, maxConsumed, appended, writes,
                   last429, lastAllEmpty, firstRequested, log, pending,
                   started, batch_start>>

\* gather() that returns as soon as one fetch has returned.
GatherFirstCompleted(done, n) == done # {}

\* await asyncio.gather(...) returns once every one of the n tasks has.
GatherDone(done, n) == done = 1..n

\* The results reach the loop in the order of the pages.
GatherReturn ==
    /\ pc = "gather"
    /\ GatherDone(finished, Len(pending))
    /\ tasks' = pending
    /\ pc' = "process"
    /\ UNCHANGED <<concurrent_requests, request_delay, page,
                   successful_requests, total_requests, header_written,
                   all_data, rate_limit_interval, file, numPages, pageSize,
                   checkpoint, rlBatches, maxRequested, reRequested,
                   notOkPages, discardedPages, maxConsumed, appended, writes,
                   last429, lastAllEmpty, firstRequested, log, pending,
                   started, finished, semaphore, in_flight, batch_start>>

\* ------------------------------------------------------ fetch_and_save_data
\* A count of the results that carry data.
batch_successful_requestsWithData(ts) ==
    Cardinality({i \in 1..Len(ts) : ts[i][2] # None})

\* sum(1 for task in tasks if task[2])
batch_successful_requests(ts) ==
    Cardinality({i \in 1..Len(ts) : ts[i][3]})

\* data[1] of the results lo..hi joined in order (halving keeps the
\* evaluation shallow for batches of two hundred results).
RECURSIVE Extend(_, _, _)
Extend(ts, lo, hi) ==
    IF lo > hi THEN <<>>
    ELSE IF lo = hi THEN ts[lo][2][1]
    ELSE LET mid == (lo + hi) \div 2
         IN Extend(ts, lo, mid) \o Extend(ts, mid + 1, hi)

\* Where the for loop stops reading results: at the first result with
\* is_successful false (break), or at the first successful result whose data
\* is None (all_data.extend(None) raises TypeError); Len(ts) + 1 if neither.
BreakIndex(ts) ==
    FirstOf({i \in 1..Len(ts) : ~ts[i][3]}, Len(ts) + 1)
RaiseIndex(ts) ==
    FirstOf({i \in 1..Len(ts) : ts[i][3] /\ ts[i][2] = None}, Len(ts) + 1)

\* ForTasks with 'continue' in place of 'break': a 429 result is skipped and
\* the results after it are appended as well.
ForTasksContinue(ts, buffer, first_page) ==
    LET good == SelectSeq(ts, LAMBDA task : task[3])
        stop == RaiseIndex(good)
    IN [all_data |-> buffer \o Extend(good, 1, stop - 1),
        page |-> first_page + (stop - 1),
        rate_limit_reached |-> Len(good) < Len(ts),
        raised |-> stop <= Len(good),
        read |-> IF Len(good) < Len(ts) THEN BreakIndex(ts) - 1 ELSE stop - 1]

\* ForTasks that leaves page at the start of the batch when it breaks on a
\* 429, so that the whole batch is fetched again.
ForTasksRetryBatch(ts, buffer, first_page) ==
    LET stop == IF BreakIndex(ts) <= RaiseIndex(ts)
                THEN BreakIndex(ts) ELSE RaiseIndex(ts)
    IN [all_data |-> buffer \o Extend(ts, 1, stop - 1),
        page |-> IF BreakIndex(ts) < RaiseIndex(ts)
                 THEN first_page ELSE first_page + (stop - 1),
        rate_limit_reached |-> BreakIndex(ts) < RaiseIndex(ts),
        raised |-> RaiseIndex(ts) < BreakIndex(ts),
        read |-> stop - 1]

\* The for loop over the batch's results: the results before the stop are
\* appended in order and counted into page.
ForTasks(ts, buffer, first_page) ==
    LET stop == IF BreakIndex(ts) <= RaiseIndex(ts)
                THEN BreakIndex(ts) ELSE RaiseIndex(ts)
    IN [all_data |-> buffer \o Extend(ts, 1, stop - 1),
        page |-> first_page + (stop - 1),
        rate_limit_reached |-> BreakIndex(ts) < RaiseIndex(ts),
        raised |-> RaiseIndex(ts) < BreakIndex(ts),
        read |-> stop - 1]

\* NewDelay without the division by the request count.
NewDelayNoDivision(total, interval) ==
    FracMin(<<interval, 1>>, <<RATE_LIMIT_WINDOW_SEC, 1>>)

\* max() of two fractions.
FracMax(a, b) == IF b[1] * a[2] > a[1] * b[2] THEN b ELSE a

\* NewDelay with max in place of min.
NewDelayMax(total, interval) ==
    FracMax(<<interval, total>>, <<RATE_LIMIT_WINDOW_SEC, total>>)

\* request_delay = min(1 / target_rps, RATE_LIMIT_WINDOW_SEC / total_requests)
\* with target_rps = total_requests / rate_limit_interval.
NewDelay(total, interval) ==
    LET target_rps == <<total, interval>>
        inverse == <<target_rps[2], target_rps[1]>>
    IN FracMin(inverse, <<RATE_LIMIT_WINDOW_SEC, total>>)

\* RateLimitedInterval that goes back to the initial interval on the next
\* rate limit.
RateLimitedIntervalToggle(interval) ==
    IF interval = INITIAL_RATE_LIMIT_INTERVAL
    THEN WIDENED_RATE_LIMIT_INTERVAL ELSE INITIAL_RATE_LIMIT_INTERVAL

\* The rate-limited branch: widen the interval first, step down afterwards.
RateLimitedInterval(interval) ==
    IF interval = INITIAL_RATE_LIMIT_INTERVAL
    THEN WIDENED_RATE_LIMIT_INTERVAL ELSE interval

\* RateLimitedConcurrency with the step added where it is subtracted.
RateLimitedConcurrencyStepUp(c, interval) ==
    IF interval = INITIAL_RATE_LIMIT_INTERVAL
    THEN c ELSE Max(INITIAL_CONCURRENT_REQUESTS, c + RATE_LIMIT_STEP)

RateLimitedConcurrency(c, interval) ==
    IF interval = INITIAL_RATE_LIMIT_INTERVAL
    THEN c ELSE Max(INITIAL_CONCURRENT_REQUESTS, c - RATE_LIMIT_STEP)

\* The branch of a batch without 429.
CleanConcurrency(c, batch_successful) ==
    IF batch_successful = c /\ c < MAX_CONCURRENT_REQUESTS
    THEN c + INCREASE_STEP
    ELSE Max(INITIAL_CONCURRENT_REQUESTS, c - DECREASE_STEP)

HeaderRow == <<"header", <<0, 0>>>>

\* ToCsv that loses the last record of the buffer.
ToCsvDropLast(data, header) ==
    (IF header THEN <<HeaderRow>> ELSE <<>>)
        \o [i \in 1..(Len(data) - 1) |-> <<"data", data[i]>>]

\* ToCsv that writes the header on every call.
ToCsvAlwaysHeader(data, header) ==
    <<HeaderRow>> \o [i \in 1..Len(data) |-> <<"data", data[i]>>]

\* DataFrame(data).to_csv(header=...): an optional header row, a row a record.
ToCsv(data, header) ==
    (IF header THEN <<HeaderRow>> ELSE <<>>)
        \o [i \in 1..Len(data) |-> <<"data", data[i]>>]

\* FlushDue with > in place of >=.
FlushDueStrict(data) == Len(data) > SAVE_BATCH_SIZE

\* len(all_data) >= SAVE_BATCH_SIZE
FlushDue(data) == Len(data) >= SAVE_BATCH_SIZE

\* WindowCount that resets the counters in both branches.
WindowCountAlwaysReset(rate_limit_reached, counted) == 0

\* The window counters after the adjustment: set to 0 in the rate-limited
\* branch (main.py:107-108), left as counted in the other branch.
WindowCount(rate_limit_reached, counted) ==
    IF rate_limit_reached THEN 0 ELSE counted

\* One pass of the while loop after the batch has been gathered.
LoopIteration ==
    /\ pc = "process"
    /\ LET batch_successful == batch_successful_requests(tasks)
           total == total_requests + Len(tasks)
           successful == successful_requests + batch_successful
           st == ForTasks(tasks, all_data, page)
           delay2 == IF st.raised \/ ~st.rate_limit_reached
                     THEN request_delay
                     ELSE NewDelay(total, rate_limit_interval)
           interval2 == IF st.raised \/ ~st.rate_limit_reached
                        THEN rate_limit_interval
                        ELSE RateLimitedInterval(rate_limit_interval)
           c2 == IF st.raised THEN concurrent_requests
                 ELSE IF st.rate_limit_reached
                 THEN RateLimitedConcurrency(concurrent_requests,
                                             rate_limit_interval)
                 ELSE CleanConcurrency(concurrent_requests, batch_successful)
       IN /\ page' = st.page
          /\ maxConsumed' = IF st.read = 0 THEN maxConsumed
                           ELSE tasks[st.read][1]
          /\ appended' = appended + (Len(st.all_data) - Len(all_data))
          /\ discardedPages' = discardedPages \cup
                {tasks[i][1] : i \in (st.read + 1)..Len(tasks)}
          /\ last429' = (\E i \in 1..Len(tasks) : ~tasks[i][3])
          /\ lastAllEmpty' = (\A i \in 1..Len(tasks) :
                                    tasks[i][2] = Some(<<>>))
          /\ log' = Append(log,
                [kind |-> IF st.raised THEN "raised"
                          ELSE IF st.rate_limit_reached THEN "rl"
                          ELSE "clean",
                 has429 |-> (\E i \in 1..Len(tasks) : ~tasks[i][3]),
                 batch |-> Len(tasks),
                 batch_successful |-> batch_successful,
                 counted |-> total,
                 counted_successful |-> successful,
                 c |-> concurrent_requests, c2 |-> c2,
                 delay |-> request_delay, delay2 |-> delay2,
                 interval |-> rate_limit_interval, interval2 |-> interval2])
          /\ request_delay' = delay2
          /\ rate_limit_interval' = interval2
          /\ concurrent_requests' = c2
          /\ IF st.raised
             THEN /\ pc' = "crashed"
                  /\ all_data' = st.all_data
                  /\ total_requests' = total
                  /\ successful_requests' = successful
                  /\ UNCHANGED <<header_written, file, writes>>
             ELSE /\ total_requests' =
                        WindowCount(st.rate_limit_reached, total)
                  /\ successful_requests' =
                        WindowCount(st.rate_limit_reached, successful)
                  /\ IF st.all_data = <<>>
                     THEN /\ pc' = "final"
                          /\ all_data' = st.all_data
                          /\ UNCHANGED <<file, header_written, writes>>
                     ELSE /\ pc' = "fetch"
                          /\ IF FlushDue(st.all_data)
                             THEN /\ file' = file \o
                                        ToCsv(st.all_data, ~header_written)
                                  /\ all_data' = <<>>
                                  /\ header_written' = TRUE
                                  /\ writes' = writes + 1
                             ELSE /\ all_data' = st.all_data
                                  /\ UNCHANGED <<file, header_written,
                                                 writes>>
    /\ UNCHANGED <<tasks, numPages, pageSize, checkpoint, rlBatches,
                   maxRequested, reRequested, notOkPages, firstRequested,
                   pending, started, finished, semaphore, in_flight,
                   batch_start>>

\* The code after the loop: write what is left in the buffer.
FinalFlush ==
    /\ pc = "final"
    /\ IF all_data # <<>>
       THEN /\ file' = file \o ToCsv(all_data, ~header_written)
            /\ writes' = writes + 1
       ELSE UNCHANGED <<file, writes>>
    /\ pc' = "done"
    /\ UNCHANGED <<concurrent_requests, request_delay, page,
                   successful_requests, total_requests, header_written,
                   all_data, rate_limit_interval, tasks, numPages, pageSize,
                   checkpoint, rlBatches, maxRequested, reRequested,
                   notOkPages, discardedPages, maxConsumed, appended, last429,
                   lastAllEmpty, firstRequested, log, pending, started,
                   finished, semaphore, in_flight, batch_start>>

\* ------------------------------------------------------------ specification
\* A start page taken from the checkpoint.
StartPageFromCheckpoint == checkpoint + 1

\* page = 1
StartPage == 1

Init ==
    /\ numPages \in 0..MaxPages
    /\ pageSize \in PageSizes
    /\ checkpoint \in 0..MaxCheckpoint
    /\ concurrent_requests = INITIAL_CONCURRENT_REQUESTS
    /\ request_delay = <<0, 1>>
    /\ page = StartPage
    /\ successful_requests = 0
    /\ total_requests = 0
    /\ header_written = FALSE
    /\ all_data = <<>>
    /\ rate_limit_interval = INITIAL_RATE_LIMIT_INTERVAL
    /\ tasks = <<>>
    /\ file = <<>>
    /\ pc = "fetch"
    /\ rlBatches = 0
    /\ maxRequested = 0
    /\ reRequested = {}
    /\ notOkPages = {}
    /\ discardedPages = {}
    /\ maxConsumed = 0
    /\ appended = 0
    /\ writes = 0
    /\ last429 = FALSE
    /\ lastAllEmpty = FALSE
    /\ firstRequested = 0
    /\ log = <<>>
    /\ pending = <<>>
    /\ started = 0
    /\ finished = {}
    /\ semaphore = 0
    /\ in_flight = {}
    /\ batch_start = [page |-> StartPage,
                      c |-> INITIAL_CONCURRENT_REQUESTS, delay |-> <<0, 1>>]

Next == FetchAllPages \/ LoopIteration \/ FinalFlush

Spec == Init /\ [][Next]_vars

\* Runs against an endpoint that never faults, followed for more batches.
NextClean == FetchAllPagesClean \/ LoopIteration \/ FinalFlush

SpecClean == Init /\ [][NextClean]_vars

\* Runs against an endpoint that fails but never answers 429.
NextFailing == FetchAllPagesFailing \/ LoopIteration \/ FinalFlush

SpecFailing == Init /\ [][NextFailing]_vars

\* Runs in which the fetches of a batch start and return one by one, against
\* an endpoint with one page of two items.
InitGather == Init /\ numPages = 1 /\ pageSize = 2 /\ checkpoint = 0

NextGather ==
    \/ GatherDispatch
    \/ TaskStart
    \/ TaskComplete
    \/ GatherReturn
    \/ LoopIteration
    \/ FinalFlush

SpecGather == InitGather /\ [][NextGather]_vars

\* ------------------------------------------------------------------- claims
\* The records of the data rows of the file, in file order.
Records(f) ==
    LET rows == SelectSeq(f, LAMBDA row : row[1] = "data")
    IN [i \in 1..Len(rows) |-> rows[i][2]]

\* The item lists of the pages lo..hi joined in ascending page order.
RECURSIVE ItemsOfPages(_, _)
ItemsOfPages(lo, hi) ==
    IF lo > hi \/ lo > numPages THEN <<>>
    ELSE IF lo = hi THEN Items(lo)
    ELSE LET mid == (lo + hi) \div 2
         IN ItemsOfPages(lo, mid) \o ItemsOfPages(mid + 1, hi)

\* C1: in every state the records written to the file followed by the
\* records in the buffer are the items of pages 1..page-1 in ascending page
\* order, each once, whatever the pattern of 429 answers.
C1_NoLossNoDuplicateInOrder ==
    Records(file) \o all_data = ItemsOfPages(1, page - 1)

\* C1 witness: a batch was cut short by a 429, pages were fetched again and
\* all the endpoint's pages have been read, part of them written.
C1_Witness ==
    /\ rlBatches >= 1
    /\ reRequested # {}
    /\ numPages >= 2
    /\ page > numPages
    /\ writes >= 1

\* C2 (as claimed): against an endpoint that never faults, an iteration whose
\* batch held only empty pages (end-of-data) ends the loop.
C2_EndOfDataEndsLoop ==
    (numPages >= 1 /\ lastAllEmpty) => pc \in {"final", "done"}

\* C3 (as claimed): the concurrency level stays within
\* [INITIAL_CONCURRENT_REQUESTS, MAX_CONCURRENT_REQUESTS].
C3_ConcurrencyInRange ==
    /\ INITIAL_CONCURRENT_REQUESTS <= concurrent_requests
    /\ concurrent_requests <= MAX_CONCURRENT_REQUESTS

\* C4 (as claimed): the loop does not end in an iteration whose batch held
\* a 429 answer (stated for the runs that still have a non-empty page to
\* read, where ending the run loses data).
C4_RateLimitNotTerminal ==
    (last429 /\ page <= numPages) => pc \notin {"final", "done"}

\* C5 (as claimed): a fetch that fails with a non-429 error never aborts
\* the run.
C5_FailureDoesNotAbort ==
    pc # "crashed"

C8_HeaderOnlyFirst ==
    \A i \in 1..Len(file) : (file[i] = HeaderRow) <=> (i = 1)

\* C8 witness: the file has been written to more than once.
C8_Witness ==
    writes >= 2

MaxDelay == RATE_LIMIT_WINDOW_SEC \div INITIAL_CONCURRENT_REQUESTS

\* C10: the request delay is never negative and never above MaxDelay
\* seconds, however many batches have run.
C10_DelayBounded ==
    /\ request_delay[2] > 0
    /\ request_delay[1] >= 0
    /\ request_delay[1] <= MaxDelay * request_delay[2]

\* C10 witness: the delay has reached MaxDelay after a second rate limit.
C10_Witness ==
    /\ rlBatches >= 2
    /\ request_delay[1] = MaxDelay * request_delay[2]

\* The batches whose for loop broke on a 429 and took the rate-limited
\* branch, and the first of them (0 if none).
RlIndices == {i \in DOMAIN log : log[i].kind = "rl"}
FirstRl == FirstOf(RlIndices, 0)

FracLess(a, b) == a[1] * b[2] < b[1] * a[2]

C13_WidenThenStepDown ==
    /\ \A i \in RlIndices :
          IF i = FirstRl
          THEN /\ log[i].interval = INITIAL_RATE_LIMIT_INTERVAL
               /\ log[i].interval2 = WIDENED_RATE_LIMIT_INTERVAL
               /\ log[i].c2 = log[i].c
          ELSE /\ log[i].interval = WIDENED_RATE_LIMIT_INTERVAL
               /\ log[i].interval2 = WIDENED_RATE_LIMIT_INTERVAL
               /\ log[i].c2 =
                    IF log[i].c - RATE_LIMIT_STEP < INITIAL_CONCURRENT_REQUESTS
                    THEN INITIAL_CONCURRENT_REQUESTS
                    ELSE log[i].c - RATE_LIMIT_STEP
    /\ \A i \in DOMAIN log :
          (FirstRl # 0 /\ i >= FirstRl)
              => log[i].interval2 = WIDENED_RATE_LIMIT_INTERVAL
    /\ FirstRl # 0 => rate_limit_interval = WIDENED_RATE_LIMIT_INTERVAL

\* C13 witness: a later rate-limited batch has lowered the concurrency level
\* by the step.
C13_Witness ==
    \E i \in RlIndices :
        i # FirstRl /\ log[i].c2 = log[i].c - RATE_LIMIT_STEP

\* C14 (as claimed): at the start of every batch the window counters are 0.
C14_CountersZeroAtBatchStart ==
    pc = "fetch" => (total_requests = 0 /\ successful_requests = 0)

\* C14 (amended): the window counters are reset only by a rate-limited
\* adjustment; otherwise they keep counting, so each decision counts the
\* requests of all batches since the last rate-limited one (or the start).
C14_CountersResetOnlyOnRateLimit ==
    /\ \A i \in DOMAIN log :
          LET before == IF i = 1 \/ log[i - 1].kind = "rl"
                        THEN <<0, 0>>
                        ELSE <<log[i - 1].counted,
                               log[i - 1].counted_successful>>
          IN /\ log[i].counted = before[1] + log[i].batch
             /\ log[i].counted_successful =
                    before[2] + log[i].batch_successful
    /\ (pc = "fetch" /\ log # <<>>) =>
          LET last == log[Len(log)]
          IN /\ total_requests =
                    IF last.kind = "rl" THEN 0 ELSE last.counted
             /\ successful_requests =
                    IF last.kind = "rl" THEN 0 ELSE last.counted_successful

\* C14 witness: after a reset by a rate limit the counter holds the requests
\* of more than one batch at the start of the next batch.
C14_Witness ==
    /\ pc = "fetch"
    /\ RlIndices # {}
    /\ total_requests > Len(tasks)

\* C15: every rate-limited adjustment sets the delay to the interval in
\* effect (60 at the first, 180 afterwards) divided by the requests counted
\* in the window, which are at least 1.
C15_DelayIsIntervalOverCount ==
    \A i \in RlIndices :
        /\ log[i].counted >= 1
        /\ log[i].interval = IF i = FirstRl
                             THEN INITIAL_RATE_LIMIT_INTERVAL
                             ELSE WIDENED_RATE_LIMIT_INTERVAL
        /\ log[i].delay2[1] * log[i].counted
              = log[i].interval * log[i].delay2[2]

\* C15 witness: a first and a later rate-limited adjustment were made, the
\* first over a window of more than one batch.
C15_Witness ==
    /\ Cardinality(RlIndices) >= 2
    /\ log[FirstRl].counted > log[FirstRl].batch

\* C16: at the start of every batch the buffer holds fewer than
\* SAVE_BATCH_SIZE records, and every record appended so far is either in
\* the file or still in the buffer (a flush writes the whole buffer).
C16_FlushAtThreshold ==
    /\ pc = "fetch" => Len(all_data) < SAVE_BATCH_SIZE
    /\ pc # "done" => Len(Records(file)) + Len(all_data) = appended

\* C16 witness: a flush has written a buffer that was above the threshold.
C16_Witness ==
    /\ pc = "fetch"
    /\ writes = 1
    /\ all_data = <<>>
    /\ Len(Records(file)) > SAVE_BATCH_SIZE

\* C12: fetch_page never raises across its boundary: for every response
\* status (200, 429, another non-200) and every network or JSON-parsing
\* exception, the result of each fetch of a batch is a (page, data, flag)
\* value whose page is the requested page, whose data is None or the items,
\* and whose flag is a boolean.
C12_FetchPageReturnsValue ==
    pc = "process" =>
        \A i \in 1..Len(tasks) :
            /\ Len(tasks[i]) = 3
            /\ tasks[i][1] = page + i - 1
            /\ tasks[i][2] \in {None, Some(Items(page + i - 1))}
            /\ tasks[i][3] \in BOOLEAN

\* A batch holds a 429 result, a failure result and a 200 result.
C12_Witness ==
    /\ pc = "process"
    /\ \E i, j, k \in 1..Len(tasks) :
        /\ ~tasks[i][3]
        /\ tasks[j][3] /\ tasks[j][2] = None
        /\ tasks[k][3] /\ tasks[k][2] # None

\* C17: batches are separated by a join barrier under every interleaving of
\* fetch completions: while a fetch of a batch has not completed, no fetch of
\* another batch runs and concurrency, delay and page keep the values of the
\* dispatch; outside fetch_all_pages every fetch has completed; and the
\* fetches in flight never outnumber the concurrency at dispatch.
C17_JoinBarrier ==
    /\ pc = "gather" =>
        /\ concurrent_requests = batch_start.c
        /\ request_delay = batch_start.delay
        /\ page = batch_start.page
    /\ pc # "gather" =>
        /\ in_flight = {}
        /\ finished = 1..Len(pending)
    /\ in_flight \subseteq
            batch_start.page..(batch_start.page + batch_start.c - 1)
    /\ Cardinality(in_flight) <= batch_start.c
    /\ Cardinality(in_flight) = started - Cardinality(finished)
    /\ semaphore >= 0

\* In a second batch the last fetch has returned while all others run.
C17_Witness ==
    /\ pc = "gather"
    /\ Len(log) >= 1
    /\ started = Len(pending)
    /\ finished = {Len(pending)}
    /\ Cardinality(in_flight) = batch_start.c - 1

\* C18: in every batch without a 429 response the requests counted as
\* successful equal the concurrency (a failure that is not a 429 counts as
\* successful), and such a batch lowers the concurrency by one only from a
\* concurrency at or above MAX_CONCURRENT_REQUESTS.
C18_FailureCountsAsSuccess ==
    \A i \in 1..Len(log) :
        ~log[i].has429 =>
            /\ log[i].batch_successful = log[i].c
            /\ log[i].batch = log[i].c
            /\ log[i].c2 < log[i].c =>
                /\ log[i].c >= MAX_CONCURRENT_REQUESTS
                /\ log[i].c2 = log[i].c - DECREASE_STEP

\* A run lowered the concurrency from MAX_CONCURRENT_REQUESTS and later
\* processed a batch with a failed request.
C18_Witness ==
    /\ \E i \in 1..Len(log) :
        /\ log[i].kind = "clean"
        /\ log[i].c = MAX_CONCURRENT_REQUESTS
        /\ log[i].c2 = MAX_CONCURRENT_REQUESTS - DECREASE_STEP
    /\ log # <<>>
    /\ log[Len(log)].kind = "raised"
    /\ log[Len(log)].batch_successful = log[Len(log)].c

====
